---- MODULE Spec2Model ----
(***************************************************************************)
(* Camera registry (CameraRegistry) and capture session (Camera) of        *)
(* camera_config_hd.py.                                                    *)
(*                                                                         *)
(* Python strings are sequences of one-character strings, so that          *)
(* isdigit, startswith, replace, strip, split, lower, the substring test   *)
(* and int() are computed, not assumed.  An integer identifier is the      *)
(* record [int |-> n].  Python dicts whose iteration order the code uses   *)
(* (name_to_device) are sequences of <<key, value>> pairs in insertion     *)
(* order.  Mutable dict objects that the code shares by reference (the     *)
(* profile dicts of DEFAULT_CAMERA_CONFIGS) live in a heap of addresses.   *)
(***************************************************************************)
EXTENDS Integers, Sequences, FiniteSets, TLC

(***************************************************************************)
(* Strings                                                                 *)
(***************************************************************************)
Digits == <<"0", "1", "2", "3", "4", "5", "6", "7", "8", "9">>

UpperChars == <<"A", "B", "C", "D", "E", "F", "G", "H", "I", "J", "K", "L", "M",
                "N", "O", "P", "Q", "R", "S", "T", "U", "V", "W", "X", "Y", "Z">>

LowerChars == <<"a", "b", "c", "d", "e", "f", "g", "h", "i", "j", "k", "l", "m",
                "n", "o", "p", "q", "r", "s", "t", "u", "v", "w", "x", "y", "z">>

\* "SUP2" stands for the character U+00B2 (superscript two): str.isdigit()
\* accepts it and int() rejects it.
UnicodeDigits == {"SUP2"}

IsDecimalChar(c) == \E i \in 1..Len(Digits) : Digits[i] = c

DigitValue(c) == (CHOOSE i \in 1..Len(Digits) : Digits[i] = c) - 1

IsWhite(c) == c = " "

\* str.strip()
RECURSIVE LStrip(_)
LStrip(s) == IF s # <<>> /\ IsWhite(Head(s)) THEN LStrip(Tail(s)) ELSE s

RECURSIVE RStrip(_)
RStrip(s) == IF s # <<>> /\ IsWhite(s[Len(s)]) THEN RStrip(SubSeq(s, 1, Len(s) - 1)) ELSE s

Strip(s) == RStrip(LStrip(s))

\* str.startswith / str.endswith
StartsWith(s, p) == Len(s) >= Len(p) /\ SubSeq(s, 1, Len(p)) = p

EndsWith(s, p) == Len(s) >= Len(p) /\ SubSeq(s, Len(s) - Len(p) + 1, Len(s)) = p

\* p in s
Contains(s, p) == \E i \in 0..(Len(s) - Len(p)) : SubSeq(s, i + 1, i + Len(p)) = p

\* str.lower()
LowerChar(c) ==
    IF \E i \in 1..Len(UpperChars) : UpperChars[i] = c
    THEN LowerChars[CHOOSE i \in 1..Len(UpperChars) : UpperChars[i] = c]
    ELSE c

Lower(s) == [i \in 1..Len(s) |-> LowerChar(s[i])]

\* str.isdigit(): non-empty and every character is a digit character
IsDigit(s) == s # <<>> /\ \A i \in 1..Len(s) : IsDecimalChar(s[i]) \/ s[i] \in UnicodeDigits

\* s.replace(p, ""), p non-empty: every occurrence removed, left to right
RECURSIVE RemoveAll(_, _)
RemoveAll(s, p) ==
    IF s = <<>> THEN <<>>
    ELSE IF StartsWith(s, p) THEN RemoveAll(SubSeq(s, Len(p) + 1, Len(s)), p)
    ELSE <<Head(s)>> \o RemoveAll(Tail(s), p)

\* s.split(":", 1)[0]
RECURSIVE BeforeColon(_)
BeforeColon(s) ==
    IF s = <<>> \/ Head(s) = ":" THEN <<>> ELSE <<Head(s)>> \o BeforeColon(Tail(s))

RECURSIVE DecimalValue(_)
DecimalValue(s) ==
    IF s = <<>> THEN 0 ELSE 10 * DecimalValue(SubSeq(s, 1, Len(s) - 1)) + DigitValue(s[Len(s)])

IsDecimal(s) == s # <<>> /\ \A i \in 1..Len(s) : IsDecimalChar(s[i])

\* int(s): surrounding whitespace and one sign are accepted; anything else is
\* a ValueError, reported as [ok |-> FALSE].
IntOfSigned(negative, body) ==
    IF IsDecimal(body)
    THEN [ok |-> TRUE, val |-> IF negative THEN 0 - DecimalValue(body) ELSE DecimalValue(body)]
    ELSE [ok |-> FALSE, val |-> 0]

IntOfStripped(t) ==
    IF t # <<>> /\ Head(t) \in {"+", "-"} THEN IntOfSigned(Head(t) = "-", Tail(t))
    ELSE IntOfSigned(FALSE, t)

IntOfStr(s) == IntOfStripped(Strip(s))

\* str(n) of a non-negative integer
RECURSIVE StrOfNat(_)
StrOfNat(n) == IF n < 10 THEN <<Digits[n + 1]>> ELSE StrOfNat(n \div 10) \o <<Digits[(n % 10) + 1]>>

StrOfInt(n) == IF n < 0 THEN <<"-">> \o StrOfNat(0 - n) ELSE StrOfNat(n)

DevVideo == <<"/", "d", "e", "v", "/", "v", "i", "d", "e", "o">>

\* f"/dev/video{n}", f"video{n}", f"Camera{n}"
DevicePath(n) == DevVideo \o StrOfInt(n)

SimpleName(n) == <<"v", "i", "d", "e", "o">> \o StrOfInt(n)

GenericName(n) == <<"C", "a", "m", "e", "r", "a">> \o StrOfInt(n)


(***************************************************************************)
(* Values                                                                  *)
(***************************************************************************)
Tiers == {"low_res", "medium_res", "high_res"}

DefaultKey == <<"d", "e", "f", "a", "u", "l", "t">>

UsbKey == <<"u", "s", "b">>

UsbUpper == <<"U", "S", "B">>

TemplateKeys == {DefaultKey, UsbKey}

\* Python None, where a string is expected
NoneStr == "None"

MJPG == "MJPG"

YUYV == "YUYV"

\* DEFAULT_CAMERA_CONFIGS, the literal
BuiltinProfile(tmpl, tier) ==
    [width  |-> CASE tier = "low_res" -> 640 [] tier = "medium_res" -> 1280 [] OTHER -> 1920,
     height |-> CASE tier = "low_res" -> 480 [] tier = "medium_res" -> 720 [] OTHER -> 1080,
     fps    |-> 30,
     format |-> IF tmpl = UsbKey /\ tier \in {"medium_res", "high_res"} THEN MJPG ELSE NoneStr]

\* Addresses of profile dict objects: the object built by the literal, by
\* json.load, or handed in by a caller of update_camera_config.
LitAddr(tmpl, tier) == <<"lit", tmpl, tier, 0>>

JsonAddr(key, tier) == <<"json", key, tier, 0>>

ArgAddr(key, tier, n) == <<"arg", key, tier, n>>

\* the dict a Camera holds as self.config, and the address of no dict
CamAddr == <<"cam", <<>>, "", 0>>

NoAddr == <<"none", <<>>, "", 0>>

EmptyMap == [k \in {} |-> 0]

MapSet(f, k, v) == [y \in (DOMAIN f) \cup {k} |-> IF y = k THEN v ELSE f[y]]

\* dict with insertion order: a sequence of <<key, value>>
DictHas(d, k) == \E i \in 1..Len(d) : d[i][1] = k

DictGet(d, k) == d[CHOOSE i \in 1..Len(d) : d[i][1] = k][2]

DictSet(d, k, v) ==
    IF DictHas(d, k)
    THEN [i \in 1..Len(d) |-> IF d[i][1] = k THEN <<k, v>> ELSE d[i]]
    ELSE Append(d, <<k, v>>)

\* x in list
InList(l, e) == \E i \in 1..Len(l) : l[i] = e

(***************************************************************************)
(* The cache file camera_registry.json                                     *)
(***************************************************************************)
CacheAbsent == [kind |-> "absent", devices |-> EmptyMap, name_to_device |-> <<>>, configs |-> EmptyMap]

CacheCorrupt == [kind |-> "corrupt", devices |-> EmptyMap, name_to_device |-> <<>>, configs |-> EmptyMap]

\* json.dump of {"devices", "name_to_device", "configs"}: the document holds
\* the values the profile objects have at that moment; sharing is not kept.
ToJson(st) ==
    [kind |-> "doc",
     devices |-> st.devices,
     name_to_device |-> st.name_to_device,
     configs |-> [k \in DOMAIN st.configs |->
                    [t \in DOMAIN st.configs[k] |-> st.heap[st.configs[k][t]]]]]

\* save_to_cache: the file is rewritten ("ok"), cannot be opened for writing
\* ("openfail": file untouched), or is truncated by open() and the dump
\* fails part-way ("partial": the file no longer parses).  Never raises.
SaveOutcomes == {"ok", "openfail", "partial"}

\* A save that writes nothing.
save_to_cache_never(st, outcome) == st

save_to_cache(st, outcome) ==
    [st EXCEPT !.cache = CASE outcome = "ok" -> ToJson(st)
                           [] outcome = "partial" -> CacheCorrupt
                           [] OTHER -> st.cache]

\* The module-level DEFAULT_CAMERA_CONFIGS of a fresh process
FreshDefaults == [k \in TemplateKeys |-> [t \in Tiers |-> LitAddr(k, t)]]

FreshHeap ==
    [a \in {LitAddr(k, t) : k \in TemplateKeys, t \in Tiers} |-> BuiltinProfile(a[2], a[3])]

\* __init__ up to load_from_cache: configs = DEFAULT_CAMERA_CONFIGS.copy()
\* is a new top-level dict holding the very same tier dicts.
NewRegistry(cache) ==
    [devices |-> EmptyMap,
     name_to_device |-> <<>>,
     configs |-> FreshDefaults,
     defaults |-> FreshDefaults,
     shared |-> TemplateKeys,
     heap |-> FreshHeap,
     cache |-> cache]

\* A load that merges the other way round, {**data["configs"], **DEFAULT_CAMERA_CONFIGS}.
load_from_cache_templates_win(st) ==
    IF st.cache.kind # "doc" THEN st
    ELSE [st EXCEPT
            !.devices = st.cache.devices,
            !.name_to_device = st.cache.name_to_device,
            !.configs = [k \in TemplateKeys \cup DOMAIN st.cache.configs |->
                           IF k \in TemplateKeys THEN st.defaults[k]
                           ELSE [t \in DOMAIN st.cache.configs[k] |-> JsonAddr(k, t)]],
            !.heap = [a \in (DOMAIN st.heap) \cup
                              {b \in {JsonAddr(k, t) : k \in DOMAIN st.cache.configs, t \in Tiers} :
                                  b[3] \in DOMAIN st.cache.configs[b[2]]} |->
                        IF a \in DOMAIN st.heap THEN st.heap[a]
                        ELSE st.cache.configs[a[2]][a[3]]]]

\* A load that merges a cached key into the built-in template tier by tier.
load_from_cache_merge_tiers(st) ==
    IF st.cache.kind = "badconfigs"
    THEN [st EXCEPT !.devices = st.cache.devices, !.name_to_device = st.cache.name_to_device]
    ELSE IF st.cache.kind # "doc" THEN st
    ELSE [st EXCEPT
            !.devices = st.cache.devices,
            !.name_to_device = st.cache.name_to_device,
            !.configs = [k \in TemplateKeys \cup DOMAIN st.cache.configs |->
                           IF k \notin DOMAIN st.cache.configs THEN st.defaults[k]
                           ELSE IF k \notin TemplateKeys
                           THEN [t \in DOMAIN st.cache.configs[k] |-> JsonAddr(k, t)]
                           ELSE [t \in Tiers |->
                                   IF t \in DOMAIN st.cache.configs[k] THEN JsonAddr(k, t)
                                   ELSE st.defaults[k][t]]],
            !.heap = [a \in (DOMAIN st.heap) \cup
                              {b \in {JsonAddr(k, t) : k \in DOMAIN st.cache.configs, t \in Tiers} :
                                  b[3] \in DOMAIN st.cache.configs[b[2]]} |->
                        IF a \in DOMAIN st.heap THEN st.heap[a]
                        ELSE st.cache.configs[a[2]][a[3]]]]

\* load_from_cache: a file that does not exist leaves the defaults; a file
\* that does not parse raises inside the try and leaves the defaults; a
\* document whose "configs" is no object raises at line 94, after lines 92
\* and 93 have assigned.
load_from_cache(st) ==
    IF st.cache.kind = "badconfigs"
    THEN [st EXCEPT !.devices = st.cache.devices, !.name_to_device = st.cache.name_to_device]
    ELSE IF st.cache.kind # "doc" THEN st
    ELSE LET data == st.cache
             loaded == DOMAIN data.configs
             jsonAddrs == {JsonAddr(k, t) : k \in loaded, t \in Tiers}
             live == {a \in jsonAddrs : a[3] \in DOMAIN data.configs[a[2]]}
         IN  [st EXCEPT
                !.devices = data.devices,
                !.name_to_device = data.name_to_device,
                !.configs = [k \in TemplateKeys \cup loaded |->
                               IF k \in loaded
                               THEN [t \in DOMAIN data.configs[k] |-> JsonAddr(k, t)]
                               ELSE st.defaults[k]],
                !.shared = TemplateKeys \ loaded,
                !.heap = [a \in (DOMAIN st.heap) \cup live |->
                            IF a \in live THEN data.configs[a[2]][a[3]] ELSE st.heap[a]]]

CameraRegistry(cache) == load_from_cache(NewRegistry(cache))

(***************************************************************************)
(* Scanning.  An environment e is what the host shows to one scan:         *)
(*   e.bin      shutil.which("v4l2-ctl") finds the command                 *)
(*   e.listing  "ok" or "error" (CalledProcessError) of --list-devices     *)
(*   e.blocks   the output, already cut at blank lines and line ends: a    *)
(*              sequence of blocks, each a non-empty sequence of lines     *)
(*   e.exists   the n in 0..9 for which /dev/video<n> exists               *)
(*   e.probe    n -> the format list --list-formats yields for             *)
(*              /dev/video<n>; an n outside its domain makes the command   *)
(*              fail                                                       *)
(***************************************************************************)
_get_device_formats(e, id) ==
    IF ~e.bin THEN <<>>
    ELSE IF id \in DOMAIN e.probe THEN e.probe[id]
    ELSE <<>>

\* lines 145-150: the ids of the lines that start with /dev/video, in the
\* order listed; int() of a malformed suffix raises ValueError
ConsId(n, rest) ==
    IF ~n.ok THEN [ok |-> FALSE, ids |-> <<>>]
    ELSE [ok |-> rest.ok, ids |-> <<n.val>> \o rest.ids]

IdOfLine(line, rest) ==
    IF ~StartsWith(line, DevVideo) THEN rest
    ELSE ConsId(IntOfStr(RemoveAll(line, DevVideo)), rest)

RECURSIVE VideoIds(_)
VideoIds(lines) ==
    IF lines = <<>> THEN [ok |-> TRUE, ids |-> <<>>]
    ELSE IdOfLine(Strip(Head(lines)), VideoIds(Tail(lines)))

\* lines 137-142
DropColon(n) == IF EndsWith(n, <<":">>) THEN Strip(SubSeq(n, 1, Len(n) - 1)) ELSE n

FullNameOf(firstLine) == DropColon(Strip(firstLine))

\* A short name that is the whole full name.
ShortNameOf_whole(full_name) == full_name

ShortNameOf(full_name) ==
    IF Contains(full_name, <<":">>) THEN Strip(BeforeColon(full_name)) ELSE full_name

\* lines 176-178: one alias per device file, each mapped to its own path
RECURSIVE AddSimpleNames(_, _)
AddSimpleNames(n2d, ids) ==
    IF ids = <<>> THEN n2d
    ELSE AddSimpleNames(DictSet(n2d, SimpleName(Head(ids)), DevicePath(Head(ids))), Tail(ids))

\* d[key]["format"] = "MJPG" for the tiers the tier dict has: a write to the
\* profile object, seen through every reference to it
EnableMJPG(heap, tierDict) ==
    LET hit == {tierDict[t] : t \in (DOMAIN tierDict) \cap {"medium_res", "high_res"}}
    IN  [a \in DOMAIN heap |-> IF a \in hit THEN [heap[a] EXCEPT !.format = MJPG] ELSE heap[a]]

\* lines 181-192: dict.copy() of a template's tier dict is a new tier dict
\* holding the same profile objects
SeedConfigPrimary(st, full_name, short_name, formats) ==
    IF short_name \in DOMAIN st.configs THEN st
    ELSE LET tmpl == IF Contains(full_name, UsbUpper) \/ Contains(full_name, UsbKey)
                     THEN UsbKey ELSE DefaultKey
             tierDict == st.configs[tmpl]
         IN  [st EXCEPT !.configs = MapSet(st.configs, short_name, tierDict),
                        !.heap = IF InList(formats, MJPG) THEN EnableMJPG(st.heap, tierDict)
                                 ELSE st.heap]

\* lines 159-192: the device is recorded under its first listed file
AddDevice(st, full_name, short_name, ids, formats) ==
    SeedConfigPrimary(
        [st EXCEPT
           !.devices = MapSet(st.devices, DevicePath(ids[1]),
                              [full_name |-> full_name, short_name |-> short_name,
                               device_id |-> ids[1], all_devices |-> ids,
                               formats |-> formats]),
           !.name_to_device =
               AddSimpleNames(
                   DictSet(DictSet(st.name_to_device, full_name, DevicePath(ids[1])),
                           short_name, DevicePath(ids[1])),
                   ids)],
        full_name, short_name, formats)

\* lines 152-157: a block without device files is skipped
ProcessParsed(st, e, full_name, vids) ==
    IF ~vids.ok THEN [raised |-> TRUE, st |-> st]
    ELSE IF vids.ids = <<>> THEN [raised |-> FALSE, st |-> st]
    ELSE [raised |-> FALSE,
          st |-> AddDevice(st, full_name, ShortNameOf(full_name), vids.ids,
                           _get_device_formats(e, vids.ids[1]))]

\* lines 132-192, one block of the output
ProcessBlock(st, e, block) ==
    ProcessParsed(st, e, FullNameOf(block[1]), VideoIds(Tail(block)))

\* the loop of line 131: r is the state so far and whether a block raised
RECURSIVE ProcessBlocks(_, _, _)
ProcessBlocks(r, e, blocks) ==
    IF r.raised \/ blocks = <<>> THEN r
    ELSE ProcessBlocks(ProcessBlock(r.st, e, Head(blocks)), e, Tail(blocks))

\* lines 244-248
SeedConfigFallback(st, generic_name, formats) ==
    IF generic_name \in DOMAIN st.configs THEN st
    ELSE [st EXCEPT !.configs =
            MapSet(st.configs, generic_name,
                   st.configs[IF InList(formats, MJPG) THEN UsbKey ELSE DefaultKey])]

\* lines 226-248, one existing /dev/video<i>
AddFallbackDevice(st, i, generic_name, device_path, formats) ==
    SeedConfigFallback(
        [st EXCEPT
           !.devices = MapSet(st.devices, device_path,
                              [full_name |-> generic_name, short_name |-> generic_name,
                               device_id |-> i, all_devices |-> <<i>>, formats |-> formats]),
           !.name_to_device =
               DictSet(DictSet(st.name_to_device, generic_name, device_path),
                       SimpleName(i), device_path)],
        generic_name, formats)

\* lines 223-248, for the existing ids in increasing order, from id i on
RECURSIVE FallbackFrom(_, _, _)
FallbackFrom(st, e, i) ==
    IF i > 9 THEN st
    ELSE IF i \notin e.exists THEN FallbackFrom(st, e, i + 1)
    ELSE FallbackFrom(
             AddFallbackDevice(st, i, GenericName(i), DevicePath(i), _get_device_formats(e, i)),
             e, i + 1)

\* self.devices = {}; self.name_to_device = {}
\* A scan that adds to what is there.
Cleared_keep(st) == st

Cleared(st) == [st EXCEPT !.devices = EmptyMap, !.name_to_device = <<>>]

_scan_devices_fallback(st, e, save) == save_to_cache(FallbackFrom(Cleared(st), e, 0), save)

\* A scan that keeps what was parsed before the exception.
ListingParsed_keep(r, e, save) == save_to_cache(r.st, save)

\* lines 194-206: an exception while the blocks are parsed leaves what the
\* earlier blocks wrote, and the fallback then runs on that state
ListingParsed(r, e, save) ==
    IF r.raised THEN _scan_devices_fallback(r.st, e, save) ELSE save_to_cache(r.st, save)

\* lines 112-206
scan_devices(st, e, save) ==
    IF ~e.bin \/ e.listing = "error" THEN _scan_devices_fallback(st, e, save)
    ELSE ListingParsed(ProcessBlocks([raised |-> FALSE, st |-> Cleared(st)], e, e.blocks), e, save)

\* "if not self.devices: self.scan_devices()"
EnsureScanned(st, e, save) ==
    IF st.devices = EmptyMap THEN scan_devices(st, e, save) ELSE st

(***************************************************************************)
(* Identifiers and results                                                 *)
(***************************************************************************)
IntId(n) == [isInt |-> TRUE, n |-> n, s |-> <<>>]

StrId(s) == [isInt |-> FALSE, n |-> 0, s |-> s]

NoInfo == [full_name |-> <<>>, short_name |-> <<>>, device_id |-> -1,
           all_devices |-> <<>>, formats |-> <<>>]

NoCfg == [width |-> 0, height |-> 0, fps |-> 0, format |-> NoneStr]

\* What a call hands back: kind is "id", "info", "none" (Python None),
\* "cfg", "bool" or "raise" (an exception leaves the call).
Ret(kind) == [kind |-> kind, id |-> 0, info |-> NoInfo, cfg |-> NoCfg, ok |-> FALSE, exc |-> ""]

RetId(n) == [Ret("id") EXCEPT !.id = n]

RetInfo(rec) == [Ret("info") EXCEPT !.info = rec]

RetCfg(p) == [Ret("cfg") EXCEPT !.cfg = p]

RetBool(b) == [Ret("bool") EXCEPT !.ok = b]

Raise(exc) == [Ret("raise") EXCEPT !.exc = exc]

\* isinstance(camera_name, int) or (isinstance(camera_name, str) and camera_name.isdigit())
IsNumeric(ident) == ident.isInt \/ IsDigit(ident.s)

\* int(camera_name)
IntOfId(ident) == IF ident.isInt THEN [ok |-> TRUE, val |-> ident.n] ELSE IntOfStr(ident.s)

\* the first key, in iteration order, that contains the name, both lowered
FuzzyHit(n2d, name) == \E i \in 1..Len(n2d) : Contains(Lower(n2d[i][1]), Lower(name))

FuzzyPath(n2d, name) ==
    LET hits == {i \in 1..Len(n2d) : Contains(Lower(n2d[i][1]), Lower(name))}
    IN  n2d[CHOOSE i \in hits : \A j \in hits : i <= j][2]

\* self.devices[path]: KeyError when the path is no key
DeviceAt(st, path) ==
    IF path \in DOMAIN st.devices THEN RetInfo(st.devices[path]) ELSE Raise("KeyError")

\* A lookup that tries the substring match before the exact key.
LookupByName_fuzzy_first(st, name) ==
    IF FuzzyHit(st.name_to_device, name) THEN DeviceAt(st, FuzzyPath(st.name_to_device, name))
    ELSE IF DictHas(st.name_to_device, name) THEN DeviceAt(st, DictGet(st.name_to_device, name))
    ELSE Ret("none")

\* lines 301-313, on a string name
LookupByName(st, name) ==
    IF DictHas(st.name_to_device, name) THEN DeviceAt(st, DictGet(st.name_to_device, name))
    ELSE IF FuzzyHit(st.name_to_device, name) THEN DeviceAt(st, FuzzyPath(st.name_to_device, name))
    ELSE Ret("none")

IdOfLookup(r) ==
    CASE r.kind = "info" -> RetId(r.info.device_id)
      [] r.kind = "none" -> RetId(0)
      [] OTHER -> r

\* return int(camera_name)
IdOfInt(n) == IF n.ok THEN RetId(n.val) ELSE Raise("ValueError")

\* lines 298-313
IdByName(st, name) == [st |-> st, ret |-> IdOfLookup(LookupByName(st, name))]

\* lines 291-300: n is int() of the path's remainder, not ok when the name
\* is no path or int() raised
IdOfPath(st, e, save, ident, n) ==
    IF n.ok THEN [st |-> st, ret |-> RetId(n.val)]
    ELSE IdByName(EnsureScanned(st, e, save), ident.s)

\* A resolver that looks at the devices before it looks at the identifier.
get_camera_id_scan_first(st, e, save, ident) ==
    IF IsNumeric(ident)
    THEN [st |-> EnsureScanned(st, e, save), ret |-> IdOfInt(IntOfId(ident))]
    ELSE IdOfPath(st, e, save, ident,
                  IF StartsWith(ident.s, DevVideo) THEN IntOfStr(RemoveAll(ident.s, DevVideo))
                  ELSE [ok |-> FALSE, val |-> 0])

\* get_camera_id, lines 284-313
get_camera_id(st, e, save, ident) ==
    IF IsNumeric(ident) THEN [st |-> st, ret |-> IdOfInt(IntOfId(ident))]
    ELSE IdOfPath(st, e, save, ident,
                  IF StartsWith(ident.s, DevVideo) THEN IntOfStr(RemoveAll(ident.s, DevVideo))
                  ELSE [ok |-> FALSE, val |-> 0])

\* lines 328-342, on a string
InfoByName(st, name) ==
    IF StartsWith(name, DevVideo) /\ name \in DOMAIN st.devices THEN RetInfo(st.devices[name])
    ELSE LookupByName(st, name)

\* lines 322-328, on a numeric identifier whose int() is n: an int that is
\* no registered device reaches camera_name.startswith
InfoOfInt(st, ident, n) ==
    IF ~n.ok THEN Raise("ValueError")
    ELSE IF DevicePath(n.val) \in DOMAIN st.devices THEN RetInfo(st.devices[DevicePath(n.val)])
    ELSE IF ident.isInt THEN Raise("AttributeError")
    ELSE InfoByName(st, ident.s)

\* lines 321-342, the devices being known
InfoIn(st, ident) ==
    [st |-> st,
     ret |-> IF IsNumeric(ident) THEN InfoOfInt(st, ident, IntOfId(ident))
             ELSE InfoByName(st, ident.s)]

\* get_camera_info, lines 315-342
get_camera_info(st, e, save, ident) == InfoIn(EnsureScanned(st, e, save), ident)

\* DEFAULT_CAMERA_CONFIGS[tmpl][resolution].copy(): the value the module
\* global holds now
GlobalTemplate(st, tmpl, resolution) == st.heap[st.defaults[tmpl][resolution]]

\* lines 352-370, r being what get_camera_info handed back
ConfigOf(r, resolution) ==
    [st |-> r.st,
     ret |->
       CASE r.ret.kind = "raise" -> r.ret
         [] r.ret.kind = "none" -> RetCfg(GlobalTemplate(r.st, DefaultKey, resolution))
         [] OTHER ->
              IF /\ r.ret.info.short_name \in DOMAIN r.st.configs
                 /\ resolution \in DOMAIN r.st.configs[r.ret.info.short_name]
              THEN RetCfg(r.st.heap[r.st.configs[r.ret.info.short_name][resolution]])
              ELSE IF InList(r.ret.info.formats, MJPG) /\ resolution \in {"medium_res", "high_res"}
              THEN RetCfg(GlobalTemplate(r.st, UsbKey, resolution))
              ELSE RetCfg(GlobalTemplate(r.st, DefaultKey, resolution))]

\* get_camera_config, lines 344-370: its own scan, then get_camera_info's
get_camera_config(st, e, save, ident, resolution) ==
    ConfigOf(get_camera_info(EnsureScanned(st, e, save), e, save, ident), resolution)

\* the first n for which the caller's config object is a new address
FreshArgAddr(st, key, tier) ==
    ArgAddr(key, tier,
            CHOOSE n \in 0..Cardinality(DOMAIN st.heap) :
                /\ ArgAddr(key, tier, n) \notin DOMAIN st.heap
                /\ \A m \in 0..(n - 1) : ArgAddr(key, tier, m) \in DOMAIN st.heap)

\* lines 405-411: the profile object handed in is stored under the tier
StoreConfig(st, short_name, resolution, seeded, addr, config) ==
    [st EXCEPT
       !.configs = MapSet(seeded, short_name, MapSet(seeded[short_name], resolution, addr)),
       !.defaults = IF short_name \in st.shared
                    THEN MapSet(st.defaults, short_name,
                                MapSet(seeded[short_name], resolution, addr))
                    ELSE st.defaults,
       !.heap = MapSet(st.heap, addr, config)]

\* lines 396-415, r being what get_camera_info handed back
UpdateOf(r, save, resolution, config) ==
    CASE r.ret.kind = "raise" -> r
      [] r.ret.kind = "none" -> [st |-> r.st, ret |-> RetBool(FALSE)]
      [] OTHER ->
           [st |-> save_to_cache(
                       StoreConfig(r.st, r.ret.info.short_name, resolution,
                                   IF r.ret.info.short_name \in DOMAIN r.st.configs
                                   THEN r.st.configs
                                   ELSE MapSet(r.st.configs, r.ret.info.short_name,
                                               r.st.defaults[DefaultKey]),
                                   FreshArgAddr(r.st, r.ret.info.short_name, resolution),
                                   config),
                       save),
            ret |-> RetBool(TRUE)]

\* update_camera_config, lines 394-415
update_camera_config(st, e, save, ident, resolution, config) ==
    UpdateOf(get_camera_info(st, e, save, ident), save, resolution, config)

\* lines 352-370: the profile object get_camera_config copies, info being
\* what get_camera_info handed back
ProfileAddrOf(st, info, resolution) ==
    IF info.kind = "none" THEN st.defaults[DefaultKey][resolution]
    ELSE IF /\ info.info.short_name \in DOMAIN st.configs
            /\ resolution \in DOMAIN st.configs[info.info.short_name]
    THEN st.configs[info.info.short_name][resolution]
    ELSE IF InList(info.info.formats, MJPG) /\ resolution \in {"medium_res", "high_res"}
    THEN st.defaults[UsbKey][resolution]
    ELSE st.defaults[DefaultKey][resolution]

\* Camera(..., fps=None)
NoFps == -1

\* A Camera that keeps the registry's own profile dict.
copy_profile_alias(st, src, fps) ==
    [st |-> [st EXCEPT !.heap = MapSet(st.heap, src,
                                       IF fps = NoFps THEN st.heap[src]
                                       ELSE [st.heap[src] EXCEPT !.fps = fps])],
     config |-> src]

\* lines 361-370 and 455-459: self.config is the .copy() get_camera_config
\* returns, and the fps given is written into that copy
copy_profile(st, src, fps) ==
    [st |-> [st EXCEPT !.heap = MapSet(st.heap, CamAddr,
                                       IF fps = NoFps THEN st.heap[src]
                                       ELSE [st.heap[src] EXCEPT !.fps = fps])],
     config |-> CamAddr]

\* Profile objects no reference reaches are gone.
Collect(st) ==
    LET live == UNION {{st.configs[k][t] : t \in DOMAIN st.configs[k]} : k \in DOMAIN st.configs}
                \cup {CamAddr}
                \cup UNION {{st.defaults[k][t] : t \in DOMAIN st.defaults[k]} : k \in DOMAIN st.defaults}
    IN  [st EXCEPT !.heap = [a \in (DOMAIN st.heap) \cap live |-> st.heap[a]]]

(***************************************************************************)
(* The hosts and the arguments the operations are tried on                 *)
(***************************************************************************)
\* "Cam: A"
NameCamA == <<"C", "a", "m", ":", " ", "A">>

\* "Cam: B"
NameCamB == <<"C", "a", "m", ":", " ", "B">>

\* "Cam"
NameCam == <<"C", "a", "m">>

\* "USB X"
NameUsbX == <<"U", "S", "B", " ", "X">>

\* "Rev"
NameRev == <<"R", "e", "v">>

\* "Bad"
NameBad == <<"B", "a", "d">>

\* "zz"
NameNoMatch == <<"z", "z">>

\* a device line of the listing: " /dev/video<n>"
LineVideo(n) == <<" ">> \o DevicePath(n)

\* " /dev/video1 x"
LineVideo1Junk == <<" ", "/", "d", "e", "v", "/", "v", "i", "d", "e", "o", "1", " ", "x">>

\* "/dev/videoX"
PathMalformed == <<"/", "d", "e", "v", "/", "v", "i", "d", "e", "o", "X">>

\* A camera with two device files and MJPG, and a USB camera without MJPG.
EnvTwo ==
    [bin |-> TRUE, listing |-> "ok",
     blocks |-> << <<NameCamA \o <<":">>, LineVideo(0), LineVideo(1)>>,
                   <<NameUsbX \o <<":">>, LineVideo(4)>> >>,
     exists |-> {0, 1, 4},
     probe |-> (0 :> <<MJPG, YUYV>>) @@ (1 :> <<>>) @@ (4 :> <<YUYV>>)]

\* Two cameras whose full names have the same short name; only the second
\* has MJPG.
EnvShared ==
    [bin |-> TRUE, listing |-> "ok",
     blocks |-> << <<NameCamA, LineVideo(0)>>, <<NameCamB, LineVideo(2)>> >>,
     exists |-> {0, 2},
     probe |-> (0 :> <<YUYV>>) @@ (2 :> <<MJPG>>)]

\* A camera whose device files are listed highest first and whose format
\* listing fails.
EnvRev ==
    [bin |-> TRUE, listing |-> "ok",
     blocks |-> << <<NameRev, LineVideo(3), LineVideo(2)>> >>,
     exists |-> {2, 3},
     probe |-> (2 :> <<YUYV>>)]

\* v4l2-ctl is not installed.
EnvNoBin ==
    [bin |-> FALSE, listing |-> "ok", blocks |-> <<>>, exists |-> {0, 2},
     probe |-> (0 :> <<MJPG>>) @@ (2 :> <<YUYV>>)]

\* v4l2-ctl --list-devices exits with an error.
EnvListErr ==
    [bin |-> TRUE, listing |-> "error", blocks |-> <<>>, exists |-> {0},
     probe |-> (0 :> <<MJPG, YUYV>>)]

\* The second block has a device line int() cannot parse.
EnvMalformed ==
    [bin |-> TRUE, listing |-> "ok",
     blocks |-> << <<NameRev, LineVideo(0)>>, <<NameBad, LineVideo1Junk>> >>,
     exists |-> {0, 1},
     probe |-> (0 :> <<YUYV>>) @@ (1 :> <<YUYV>>)]

\* A camera whose name holds a digit: "C1" on /dev/video0.
EnvDigit ==
    [bin |-> TRUE, listing |-> "ok",
     blocks |-> << <<<<"C", "1">>, LineVideo(0)>> >>,
     exists |-> {0},
     probe |-> (0 :> <<YUYV>>)]

\* No camera at all: the output is empty.
EnvNone ==
    [bin |-> TRUE, listing |-> "ok", blocks |-> << <<<<>>>> >>, exists |-> {},
     probe |-> (0 :> <<>>)]

Envs == {EnvTwo, EnvShared, EnvRev, EnvDigit, EnvNoBin, EnvListErr, EnvMalformed, EnvNone}

Idents ==
    {IntId(0), IntId(7),
     StrId(<<"1">>), StrId(<<"SUP2">>),
     StrId(DevicePath(0)), StrId(PathMalformed),
     StrId(NameCamA), StrId(NameCamB), StrId(NameCam), StrId(NameUsbX), StrId(NameRev),
     StrId(SimpleName(0)), StrId(SimpleName(1)), StrId(GenericName(0)),
     StrId(Lower(NameCam)), StrId(NameNoMatch), StrId(<<>>)}

\* A cache file written by hand or by another version: one camera and no
\* "configs" key.
DocNoConfigs ==
    [kind |-> "doc",
     devices |-> (DevicePath(0) :>
                    [full_name |-> NameCamA, short_name |-> NameCam, device_id |-> 0,
                     all_devices |-> <<0>>, formats |-> <<MJPG>>]),
     name_to_device |-> << <<NameCamA, DevicePath(0)>>, <<NameCam, DevicePath(0)>>,
                           <<SimpleName(0), DevicePath(0)>> >>,
     configs |-> EmptyMap]

\* A cache file whose "default" has one tier only, with a camera key and
\* without "usb".
DocPartial ==
    [kind |-> "doc", devices |-> EmptyMap, name_to_device |-> <<>>,
     configs |-> (DefaultKey :> ("low_res" :> [width |-> 320, height |-> 240, fps |-> 15,
                                               format |-> NoneStr]))
                 @@ (NameCam :> ("high_res" :> [width |-> 1920, height |-> 1080, fps |-> 60,
                                                format |-> MJPG]))]

\* A cache file whose "configs" is a list, a string or null.
DocBadConfigs == [DocNoConfigs EXCEPT !.kind = "badconfigs"]

\* the cache files a first process may find
CacheDocs == {CacheAbsent, CacheCorrupt, DocNoConfigs, DocPartial, DocBadConfigs}

\* the arguments Camera(camera_name, resolution, fps) is built with
CamArgs ==
    {[ident |-> IntId(0), tier |-> "medium_res", fps |-> NoFps],
     [ident |-> StrId(NameCam), tier |-> "high_res", fps |-> 15]}

\* the config dicts callers hand to update_camera_config
ArgProfiles ==
    {[width |-> 320, height |-> 240, fps |-> 15, format |-> NoneStr],
     [width |-> 1280, height |-> 720, fps |-> 60, format |-> MJPG]}

(***************************************************************************)
(* The capture session (class Camera).  A VideoCapture object is a number  *)
(* 1, 2, ...; 0 is None.  s.opened holds the objects whose isOpened() is   *)
(* true.  Each read() that passes its guard starts one thread; s.threads   *)
(* [i] is the thread of the i-th such read(), with the closure variables   *)
(* result and exception of that invocation.                                *)
(***************************************************************************)
Failure == [ok |-> FALSE, frame |-> "None"]

\* what cap.read() can hand back
CaptureResults ==
    {[ok |-> TRUE, frame |-> "f1"], [ok |-> TRUE, frame |-> "f2"], Failure}

SRet(kind) == [kind |-> kind, ok |-> FALSE, frame |-> "None"]

SPair(r) == [kind |-> "pair", ok |-> r.ok, frame |-> r.frame]

SBool(b) == [SRet("bool") EXCEPT !.ok = b]

\* self.cap is not None and self.cap.isOpened()
IsOpen(s) == s.cap # 0 /\ s.cap \in s.opened

\* A release that does not ask whether the handle is open.
release_unguarded(s) == [s EXCEPT !.opened = s.opened \ {s.cap}, !.cap = 0]

\* lines 537-541
release(s) ==
    IF IsOpen(s) THEN [s EXCEPT !.opened = s.opened \ {s.cap}, !.cap = 0] ELSE s

\* An open() whose capture object counts as opened whatever the device did.
open_acquire_unchecked(s, h, acquired) ==
    [s EXCEPT !.cap = h, !.opened = (s.opened \ {s.cap}) \cup {h}]

\* An open() that takes a new capture object without releasing the old one.
open_acquire_no_release(s, h, acquired) ==
    [s EXCEPT !.cap = h, !.opened = IF acquired THEN s.opened \cup {h} ELSE s.opened]

\* lines 463-471: the implicit release, then cv2.VideoCapture(...), which
\* yields a new object that holds the device or does not
open_acquire(s, h, acquired) ==
    LET s1 == IF s.cap # 0 THEN release(s) ELSE s
    IN  [s1 EXCEPT !.cap = h,
                   !.opened = IF acquired THEN s1.opened \cup {h} ELSE s1.opened]

\* lines 512-524: result = [False, None]; exception = None; thread.start()
NewThread(s) ==
    [handle |-> s.cap, alive |-> TRUE, result |-> Failure, exception |-> FALSE,
     produced |-> Failure, returned |-> FALSE]

\* A guard that asks only whether a capture object exists.
read_start_cap_only(s) ==
    IF s.cap = 0 THEN [s |-> s, spawned |-> FALSE]
    ELSE [s |-> [s EXCEPT !.threads = Append(s.threads, NewThread(s))], spawned |-> TRUE]

\* lines 506-524
read_start(s) ==
    IF ~IsOpen(s) THEN [s |-> s, spawned |-> FALSE]
    ELSE [s |-> [s EXCEPT !.threads = Append(s.threads, NewThread(s))], spawned |-> TRUE]

\* lines 515-520, the thread body: cap.read() hands back r, or raises
thread_returns(t, r) ==
    [t EXCEPT !.alive = FALSE, !.result = r, !.produced = r, !.returned = TRUE]

thread_raises(t) == [t EXCEPT !.alive = FALSE, !.exception = TRUE]

\* A read() whose result variable is the one of the session's first read().
read_finish_shared(s, i) ==
    IF s.threads[i].alive THEN SPair(Failure)
    ELSE IF s.threads[i].exception THEN SPair(Failure)
    ELSE SPair(s.threads[1].result)

\* lines 527-535, once thread.join(timeout) is over, for invocation i
read_finish(s, i) ==
    IF s.threads[i].alive THEN SPair(Failure)
    ELSE IF s.threads[i].exception THEN SPair(Failure)
    ELSE SPair(s.threads[i].result)

\* A join without timeout ends only when the thread is over.
join_forever(s, i, elapsed) == ~s.threads[i].alive

\* thread.join(timeout) ends when the thread is over or the timeout elapses
join_over(s, i, elapsed) == ~s.threads[i].alive \/ elapsed

\* cv2.VideoWriter_fourcc(*"MJPG"): the four character codes, lowest byte first
FourccMJPG == 77 + 74 * 256 + 80 * 65536 + 71 * 16777216

\* An open() that sets the geometry before the format.
open_settings_format_last(config) ==
    <<[call |-> "set", prop |-> "FRAME_WIDTH", val |-> config.width],
      [call |-> "set", prop |-> "FRAME_HEIGHT", val |-> config.height],
      [call |-> "set", prop |-> "FPS", val |-> config.fps]>>
    \o (IF config.format = MJPG THEN <<[call |-> "set", prop |-> "FOURCC", val |-> FourccMJPG]>>
        ELSE <<>>)
    \o <<[call |-> "set", prop |-> "BUFFERSIZE", val |-> 1],
         [call |-> "get", prop |-> "FRAME_WIDTH", val |-> 0],
         [call |-> "get", prop |-> "FRAME_HEIGHT", val |-> 0],
         [call |-> "get", prop |-> "FPS", val |-> 0],
         [call |-> "get", prop |-> "FOURCC", val |-> 0]>>

\* lines 473-492: what open() does to the capture object between acquiring
\* it and the warm-up loop
open_settings(config) ==
    (IF config.format = MJPG THEN <<[call |-> "set", prop |-> "FOURCC", val |-> FourccMJPG]>> ELSE <<>>)
    \o <<[call |-> "set", prop |-> "FRAME_WIDTH", val |-> config.width],
         [call |-> "set", prop |-> "FRAME_HEIGHT", val |-> config.height],
         [call |-> "set", prop |-> "FPS", val |-> config.fps],
         [call |-> "set", prop |-> "BUFFERSIZE", val |-> 1],
         [call |-> "get", prop |-> "FRAME_WIDTH", val |-> 0],
         [call |-> "get", prop |-> "FRAME_HEIGHT", val |-> 0],
         [call |-> "get", prop |-> "FPS", val |-> 0],
         [call |-> "get", prop |-> "FOURCC", val |-> 0]>>

\* the warm-up loop of open(), line 500
WarmupReads == 5

\* how many scan_devices calls, update_camera_config calls and process
\* starts a run makes
MaxScans == 2

MaxUpdates == 1

MaxStarts == 2

\* how many threads the read() calls of a run start, and how many
\* VideoCapture objects its open() calls make
MaxReads == 3

MaxOpens == 2

(***************************************************************************)
(* The single-motor test script (test_single_motor.py).  The bus is the    *)
(* servo library's object; the script sees its is_connected and motors     *)
(* attributes and its connect, read, write and disconnect calls, each of   *)
(* which may raise.                                                        *)
(***************************************************************************)
\* the bus main() builds for n motors, not yet connected; torque and
\* present are the servo's Torque_Enable and Present_Position registers
FeetechMotorsBus(n) == [is_connected |-> FALSE, motors |-> n, torque |-> 0, present |-> 2048]

\* steps = int(degrees * 4096 / 360): int() drops the fraction, towards zero
StepsOfDegrees(degrees) ==
    IF degrees >= 0 THEN (degrees * 4096) \div 360 ELSE 0 - (((0 - degrees) * 4096) \div 360)

\* one statement of a test: the bus call, its register and value, the local
\* the result is assigned to, and whether it stands under
\* `if len(motors_bus.motors) == 1`
Stmt(call, reg, val, into, single) ==
    [call |-> call, reg |-> reg, val |-> val, into |-> into, single |-> single]

\* the try block of test_motor_rotation (lines 41-75) and of
\* rotate_by_degrees (lines 91-124), once current_position is read
RotationBody(steps, current_position) ==
    << Stmt("connect", "", 0, "", FALSE),
       Stmt("read", "Present_Position", 0, "current_position", FALSE),
       Stmt("write", "Torque_Enable", 1, "", FALSE),
       Stmt("write", "Goal_Position", current_position + steps, "", FALSE),
       Stmt("read", "Present_Position", 0, "new_position", FALSE),
       Stmt("write", "Goal_Position", current_position, "", FALSE),
       Stmt("read", "Present_Position", 0, "final_position", FALSE),
       Stmt("write", "Torque_Enable", 0, "", TRUE),
       Stmt("disconnect", "", 0, "", TRUE) >>

\* the try block of set_motor_position, lines 138-161
PositionBody(position) ==
    << Stmt("connect", "", 0, "", FALSE),
       Stmt("read", "Present_Position", 0, "current_position", FALSE),
       Stmt("write", "Torque_Enable", 1, "", FALSE),
       Stmt("write", "Goal_Position", position, "", FALSE),
       Stmt("read", "Present_Position", 0, "new_position", FALSE),
       Stmt("write", "Torque_Enable", 0, "", TRUE),
       Stmt("disconnect", "", 0, "", TRUE) >>

BodyOf(fn, arg, current_position) ==
    IF fn = "test_motor_rotation" THEN RotationBody(arg, current_position)
    ELSE IF fn = "rotate_by_degrees" THEN RotationBody(StepsOfDegrees(arg), current_position)
    ELSE PositionBody(arg)

\* the except block of the three tests (lines 78-83, 127-132, 164-169):
\* both calls stand in one contextlib.suppress(Exception) block
ExceptBody ==
    << Stmt("write", "Torque_Enable", 0, "", TRUE),
       Stmt("disconnect", "", 0, "", TRUE) >>

\* what a bus call can do: connect() opens the port or raises; read() and
\* write() reach the servo over an open port or raise; a written
\* Goal_Position is where a servo under torque goes during the sleep that
\* follows; disconnect() closes the port
BusCall(bus, s) ==
    (IF s.call = "disconnect" THEN {} ELSE {[bus |-> bus, value |-> 0, raised |-> TRUE]})
    \cup
    IF s.call = "connect" THEN {[bus |-> [bus EXCEPT !.is_connected = TRUE], value |-> 0, raised |-> FALSE]}
    ELSE IF s.call = "disconnect" THEN {[bus |-> [bus EXCEPT !.is_connected = FALSE], value |-> 0, raised |-> FALSE]}
    ELSE IF ~bus.is_connected THEN {}
    ELSE IF s.call = "read" THEN {[bus |-> bus, value |-> bus.present, raised |-> FALSE]}
    ELSE IF s.reg = "Torque_Enable" THEN {[bus |-> [bus EXCEPT !.torque = s.val], value |-> 0, raised |-> FALSE]}
    ELSE {[bus |-> [bus EXCEPT !.present = IF bus.torque = 1 THEN s.val ELSE @], value |-> 0, raised |-> FALSE]}

\* the statement is skipped: the connect of a connected bus (lines 41, 91,
\* 138), the clean-up on a bus of several motors (lines 73, 80)
Skipped(bus, s) ==
    \/ s.call = "connect" /\ bus.is_connected
    \/ s.single /\ bus.motors # 1

\* the frame of a test: the function and its argument, the block it is in
\* ("idle", "try", "except", "done"), the next statement of the block, the
\* position read first, and whether an exception left the function
Frame(fn, arg, block, i, current_position, escaped) ==
    [fn |-> fn, arg |-> arg, block |-> block, i |-> i,
     current_position |-> current_position, escaped |-> escaped]

NoTest == Frame("", 0, "idle", 1, 0, FALSE)

(***************************************************************************)
(* State                                                                   *)
(***************************************************************************)
VARIABLES
    devices,          \* registry.devices: device path -> record
    name_to_device,   \* registry.name_to_device, in insertion order
    configs,          \* registry.configs: key -> tier -> address of the profile
    defaults,         \* DEFAULT_CAMERA_CONFIGS: template -> tier -> address
    shared,           \* the templates k with registry.configs[k] is DEFAULT_CAMERA_CONFIGS[k]
    heap,             \* address -> profile dict
    cache_file,       \* camera_registry.json
    op,               \* the call in progress and its arguments
    ret,              \* what it returns or raises
    nScans,
    nUpdates,
    nStarts,
    cam,              \* the Camera object: cap, and the objects and threads it made
    pc,               \* where the caller of the Camera is: "idle", "warmup", "join"
    warm,             \* warm-up reads done by the open() in progress
    sop,              \* the last Camera call
    sret,             \* what it returned
    motors_bus,       \* the motor bus of the test script
    frame             \* the motor test in progress

regVars == <<devices, name_to_device, configs, defaults, shared, heap, cache_file>>

counters == <<nScans, nUpdates, nStarts>>

camVars == <<cam, pc, warm, sop, sret>>

motVars == <<motors_bus, frame>>

vars == <<devices, name_to_device, configs, defaults, shared, heap, cache_file, op, ret,
          nScans, nUpdates, nStarts, cam, pc, warm, sop, sret, motors_bus, frame>>

Registry ==
    [devices |-> devices, name_to_device |-> name_to_device, configs |-> configs,
     defaults |-> defaults, shared |-> shared, heap |-> heap, cache |-> cache_file]

Install(st) ==
    /\ devices' = st.devices
    /\ name_to_device' = st.name_to_device
    /\ configs' = st.configs
    /\ defaults' = st.defaults
    /\ shared' = st.shared
    /\ heap' = st.heap
    /\ cache_file' = st.cache

Commit(st0) == Install(Collect(st0))

\* the first run on a host: no cache file yet
InitialRegistry == Collect(CameraRegistry(CacheAbsent))

Call(name, ident, tier) == [name |-> name, ident |-> ident, tier |-> tier]

NoIdent == StrId(<<>>)

Idle == Call("", NoIdent, "")

Init ==
    /\ \E st \in {InitialRegistry} :
        /\ devices = st.devices
        /\ name_to_device = st.name_to_device
        /\ configs = st.configs
        /\ defaults = st.defaults
        /\ shared = st.shared
        /\ heap = st.heap
        /\ cache_file = st.cache
    /\ op = Idle
    /\ ret = Ret("none")
    /\ nScans = 0
    /\ nUpdates = 0
    /\ nStarts = 1
    /\ cam = [cap |-> 0, opened |-> {}, made |-> 0, threads |-> <<>>, camera_id |-> 0,
              config |-> NoAddr, ops |-> <<>>]
    /\ pc = "idle"
    /\ warm = 0
    /\ sop = "__init__"
    /\ sret = SRet("none")
    /\ motors_bus = FeetechMotorsBus(1)
    /\ frame = NoTest

\* The first process finds any of the cache files.
CacheInit ==
    /\ \E doc \in CacheDocs :
        \E st \in {Collect(CameraRegistry(doc))} :
            /\ devices = st.devices
            /\ name_to_device = st.name_to_device
            /\ configs = st.configs
            /\ defaults = st.defaults
            /\ shared = st.shared
            /\ heap = st.heap
            /\ cache_file = st.cache
    /\ op = Call("__init__", NoIdent, "")
    /\ ret = Ret("none")
    /\ nScans = 0
    /\ nUpdates = 0
    /\ nStarts = 1
    /\ cam = [cap |-> 0, opened |-> {}, made |-> 0, threads |-> <<>>, camera_id |-> 0,
              config |-> NoAddr, ops |-> <<>>]
    /\ pc = "idle"
    /\ warm = 0
    /\ sop = "__init__"
    /\ sret = SRet("none")
    /\ motors_bus = FeetechMotorsBus(1)
    /\ frame = NoTest

\* The hosts a call that scans may meet; a call that does not scan meets
\* none.  In these runs the cache file can be written.
ScanEnvs(scans) == IF scans THEN Envs ELSE {EnvNone}

CanScan(scans) == scans => nScans < MaxScans

Count(scans) == nScans' = IF scans THEN nScans + 1 ELSE nScans

\* A new process imports the module: DEFAULT_CAMERA_CONFIGS is the literal
\* again and the global registry is built from the cache file.
Start ==
    /\ op = Idle
    /\ nStarts < MaxStarts
    /\ nStarts' = nStarts + 1
    /\ Commit(CameraRegistry(cache_file))
    /\ op' = Call("__init__", NoIdent, "")
    /\ ret' = Ret("none")
    /\ UNCHANGED <<nScans, nUpdates, camVars, motVars>>

ScanDevices ==
    /\ op = Idle
    /\ CanScan(TRUE)
    /\ \E e \in Envs :
        /\ Commit(scan_devices(Registry, e, "ok"))
        /\ op' = Call("scan_devices", NoIdent, "")
        /\ ret' = Ret("none")
        /\ Count(TRUE)
        /\ UNCHANGED <<nUpdates, nStarts, camVars, motVars>>

\* get_camera_id scans when the name rules are reached with no device known
IdScans(ident) ==
    /\ devices = EmptyMap
    /\ ~IsNumeric(ident)
    /\ ~(StartsWith(ident.s, DevVideo) /\ IntOfStr(RemoveAll(ident.s, DevVideo)).ok)

\* what a finished call leaves: the registry, the call and its result
Done(r, call, scans) ==
    /\ Commit(r.st)
    /\ op' = call
    /\ ret' = r.ret
    /\ Count(scans)

GetCameraId ==
    /\ op = Idle
    /\ \E ident \in Idents :
        \E scans \in {IdScans(ident)} :
            /\ CanScan(scans)
            /\ \E e \in ScanEnvs(scans) :
                Done(get_camera_id(Registry, e, "ok", ident),
                     Call("get_camera_id", ident, ""), scans)
    /\ UNCHANGED <<nUpdates, nStarts, camVars, motVars>>

GetCameraInfo ==
    /\ op = Idle
    /\ CanScan(devices = EmptyMap)
    /\ \E ident \in Idents, e \in ScanEnvs(devices = EmptyMap) :
        Done(get_camera_info(Registry, e, "ok", ident),
             Call("get_camera_info", ident, ""), devices = EmptyMap)
    /\ UNCHANGED <<nUpdates, nStarts, camVars, motVars>>

GetCameraConfig ==
    /\ op = Idle
    /\ CanScan(devices = EmptyMap)
    /\ \E ident \in Idents, tier \in Tiers, e \in ScanEnvs(devices = EmptyMap) :
        Done(get_camera_config(Registry, e, "ok", ident, tier),
             Call("get_camera_config", ident, tier), devices = EmptyMap)
    /\ UNCHANGED <<nUpdates, nStarts, camVars, motVars>>

UpdateCameraConfig ==
    /\ op = Idle
    /\ nUpdates < MaxUpdates
    /\ CanScan(devices = EmptyMap)
    /\ \E ident \in Idents, tier \in Tiers, config \in ArgProfiles,
          e \in ScanEnvs(devices = EmptyMap) :
        Done(update_camera_config(Registry, e, "ok", ident, tier, config),
             Call("update_camera_config", ident, tier), devices = EmptyMap)
    /\ nUpdates' = nUpdates + 1
    /\ UNCHANGED <<nStarts, camVars, motVars>>

\* The call is over and its caller goes on.
Return ==
    /\ op # Idle
    /\ op' = Idle
    /\ ret' = Ret("none")
    /\ UNCHANGED <<regVars, counters, camVars, motVars>>

\* The registry under its callers.
Next ==
    \/ Start
    \/ ScanDevices
    \/ GetCameraId
    \/ GetCameraInfo
    \/ GetCameraConfig
    \/ Return

Spec == Init /\ [][Next]_vars

\* The registry under callers that also store configs.
ConfigNext ==
    \/ Start
    \/ ScanDevices
    \/ GetCameraId
    \/ GetCameraInfo
    \/ GetCameraConfig
    \/ UpdateCameraConfig
    \/ Return

ConfigSpec == Init /\ [][ConfigNext]_vars

\* The registry of a host on which a cache file was there first.
CacheSpec == CacheInit /\ [][Next]_vars

(***************************************************************************)
(* The Camera under one caller.                                            *)
(***************************************************************************)
regAll == <<regVars, counters, op, ret>>

\* Camera.__init__, lines 425-459: get_camera_id, get_camera_info and
\* get_camera_config on the global registry, each of which may scan; an
\* exception of any of them leaves no Camera.
NewCamera ==
    /\ op = Idle
    /\ pc = "idle"
    /\ cam.config = NoAddr
    /\ sop = "__init__"
    /\ sret = SRet("none")
    /\ CanScan(devices = EmptyMap)
    /\ \E a \in CamArgs, e \in ScanEnvs(devices = EmptyMap) :
        \E r1 \in {get_camera_id(Registry, e, "ok", a.ident)} :
        \E r2 \in {get_camera_info(r1.st, e, "ok", a.ident)} :
        \E r3 \in {get_camera_config(r2.st, e, "ok", a.ident, a.tier)} :
            IF r1.ret.kind = "raise"
            THEN Commit(r1.st) /\ cam' = cam /\ sret' = SRet("raise")
            ELSE IF r2.ret.kind = "raise"
            THEN Commit(r2.st) /\ cam' = cam /\ sret' = SRet("raise")
            ELSE IF r3.ret.kind = "raise"
            THEN Commit(r3.st) /\ cam' = cam /\ sret' = SRet("raise")
            ELSE \E c \in {copy_profile(r3.st, ProfileAddrOf(r3.st, r2.ret, a.tier), a.fps)} :
                    /\ Commit(c.st)
                    /\ cam' = [cam EXCEPT !.camera_id = r1.ret.id, !.config = c.config]
                    /\ sret' = SRet("none")
    /\ Count(devices = EmptyMap)
    /\ UNCHANGED <<op, ret, nUpdates, nStarts, pc, warm, sop, motVars>>

\* open(), lines 461-497, up to the first warm-up read; ops is what this
\* open() has done to its capture object
Open ==
    /\ pc = "idle"
    /\ cam.config # NoAddr
    /\ cam.made < MaxOpens
    /\ \E acquired \in BOOLEAN :
        /\ cam' = [open_acquire(cam, cam.made + 1, acquired) EXCEPT
                     !.made = cam.made + 1,
                     !.ops = <<[call |-> "VideoCapture", prop |-> "", val |-> cam.camera_id]>>
                             \o (IF acquired THEN open_settings(heap[cam.config]) ELSE <<>>)]
        /\ pc' = IF acquired THEN "warmup" ELSE "idle"
        /\ sret' = IF acquired THEN SRet("none") ELSE SBool(FALSE)
    /\ warm' = 0
    /\ sop' = "open"
    /\ UNCHANGED <<regAll, motVars>>

\* one self.cap.read() of the warm-up loop, made by the caller itself: it
\* hands back something, which is dropped, or raises; a call that never
\* returns leaves the caller here
WarmupRead ==
    /\ pc = "warmup"
    /\ warm < WarmupReads
    /\ \/ /\ warm' = warm + 1
          /\ UNCHANGED <<pc, sret>>
       \/ /\ pc' = "idle"
          /\ sret' = SRet("raise")
          /\ UNCHANGED warm
    /\ cam' = [cam EXCEPT !.ops = Append(@, [call |-> "read", prop |-> "", val |-> 0])]
    /\ UNCHANGED <<sop, regAll, motVars>>

\* line 504
OpenReturn ==
    /\ pc = "warmup"
    /\ warm = WarmupReads
    /\ pc' = "idle"
    /\ sret' = SBool(TRUE)
    /\ UNCHANGED <<cam, warm, sop, regAll, motVars>>

\* read(), lines 506-525: the guard, and the thread started
Read ==
    /\ pc = "idle"
    /\ cam.config # NoAddr
    /\ Len(cam.threads) < MaxReads
    /\ \E r \in {read_start(cam)} :
           /\ cam' = r.s
           /\ pc' = IF r.spawned THEN "join" ELSE "idle"
           /\ sret' = IF r.spawned THEN SRet("none") ELSE SPair(Failure)
    /\ sop' = "read"
    /\ UNCHANGED <<warm, regAll, motVars>>

\* a thread's cap.read() comes back
ThreadReturns ==
    \E i \in 1..Len(cam.threads), r \in CaptureResults :
        /\ cam.threads[i].alive
        /\ cam' = [cam EXCEPT !.threads[i] = thread_returns(cam.threads[i], r)]
        /\ UNCHANGED <<pc, warm, sop, sret, regAll, motVars>>

ThreadRaises ==
    \E i \in 1..Len(cam.threads) :
        /\ cam.threads[i].alive
        /\ cam' = [cam EXCEPT !.threads[i] = thread_raises(cam.threads[i])]
        /\ UNCHANGED <<pc, warm, sop, sret, regAll, motVars>>

\* read(), lines 525-535: join is over because the thread is
ReadJoined ==
    /\ pc = "join"
    /\ join_over(cam, Len(cam.threads), FALSE)
    /\ pc' = "idle"
    /\ sret' = read_finish(cam, Len(cam.threads))
    /\ UNCHANGED <<cam, warm, sop, regAll, motVars>>

\* read(), lines 525-535: join is over because the timeout elapsed
ReadTimeout ==
    /\ pc = "join"
    /\ cam.threads[Len(cam.threads)].alive
    /\ join_over(cam, Len(cam.threads), TRUE)
    /\ pc' = "idle"
    /\ sret' = read_finish(cam, Len(cam.threads))
    /\ UNCHANGED <<cam, warm, sop, regAll, motVars>>

\* release(), lines 537-541
Release ==
    /\ pc = "idle"
    /\ cam.config # NoAddr
    /\ cam' = release(cam)
    /\ sop' = "release"
    /\ sret' = SRet("none")
    /\ UNCHANGED <<pc, warm, regAll, motVars>>

CamNext ==
    \/ NewCamera
    \/ Open
    \/ WarmupRead
    \/ OpenReturn
    \/ Read
    \/ ThreadReturns
    \/ ThreadRaises
    \/ ReadJoined
    \/ ReadTimeout
    \/ Release

CamSpec == Init /\ [][CamNext]_vars

\* A Camera is built, and the one caller goes on using the registry.
SessionNext ==
    \/ NewCamera
    \/ ScanDevices
    \/ UpdateCameraConfig
    \/ Return

SessionSpec == Init /\ [][SessionNext]_vars

\* The caller's own statements run: thread.join(timeout) returns, at the
\* latest when the timeout has elapsed, and the return of open() after the
\* warm-up loop is taken.  Nothing makes cap.read() return.
CamFairSpec == CamSpec /\ WF_vars(ReadJoined) /\ WF_vars(ReadTimeout) /\ WF_vars(OpenReturn)

(***************************************************************************)
(* The motor tests under main().                                           *)
(***************************************************************************)
\* main() builds the bus for one motor or for a range of motors and calls
\* the test chosen on the command line; a test on a bus of several motors
\* leaves the bus connected for the next motor's test; the arguments are
\* --steps, --degrees and --position
MotorCall ==
    /\ frame = NoTest
    /\ \E a \in {<<"test_motor_rotation", 100>>, <<"rotate_by_degrees", 10>>,
                 <<"rotate_by_degrees", -10>>, <<"set_motor_position", 1000>>},
          n \in {1, 2} :
        \E c \in IF n = 1 THEN {FALSE} ELSE BOOLEAN :
            /\ motors_bus' = [FeetechMotorsBus(n) EXCEPT !.is_connected = c]
            /\ frame' = Frame(a[1], a[2], "try", 1, 0, FALSE)
    /\ UNCHANGED <<regAll, camVars>>

\* the next statement of the try block; a call that raises goes to the
\* except block
TryStep ==
    /\ frame.block = "try"
    /\ frame.i <= Len(BodyOf(frame.fn, frame.arg, frame.current_position))
    /\ \E s \in {BodyOf(frame.fn, frame.arg, frame.current_position)[frame.i]} :
        IF Skipped(motors_bus, s)
        THEN /\ frame' = [frame EXCEPT !.i = @ + 1]
             /\ UNCHANGED motors_bus
        ELSE \E r \in BusCall(motors_bus, s) :
                /\ motors_bus' = r.bus
                /\ frame' = IF r.raised
                            THEN [frame EXCEPT !.block = "except", !.i = 1]
                            ELSE [frame EXCEPT !.i = @ + 1,
                                               !.current_position =
                                                   IF s.into = "current_position"
                                                   THEN r.value ELSE @]
    /\ UNCHANGED <<regAll, camVars>>

\* the next statement of the except block; contextlib.suppress(Exception)
\* swallows a call that raises, and with it the rest of the block
ExceptStep ==
    /\ frame.block = "except"
    /\ frame.i <= Len(ExceptBody)
    /\ \E s \in {ExceptBody[frame.i]} :
        IF Skipped(motors_bus, s)
        THEN /\ frame' = [frame EXCEPT !.i = @ + 1]
             /\ UNCHANGED motors_bus
        ELSE \E r \in BusCall(motors_bus, s) :
                /\ motors_bus' = r.bus
                /\ frame' = IF r.raised
                            THEN [frame EXCEPT !.block = "done"]
                            ELSE [frame EXCEPT !.i = @ + 1]
    /\ UNCHANGED <<regAll, camVars>>

\* the test returns at the end of its try block or of its except block
MotorReturn ==
    /\ \/ /\ frame.block = "try"
          /\ frame.i > Len(BodyOf(frame.fn, frame.arg, frame.current_position))
       \/ /\ frame.block = "except"
          /\ frame.i > Len(ExceptBody)
    /\ frame' = [frame EXCEPT !.block = "done"]
    /\ UNCHANGED <<motors_bus, regAll, camVars>>

MotorNext ==
    \/ MotorCall
    \/ TryStep
    \/ ExceptStep
    \/ MotorReturn

MotorSpec == Init /\ [][MotorNext]_vars


(***************************************************************************)
(* Properties                                                              *)
(***************************************************************************)
\* the files of a device record, as a set
FilesOf(d) == {d.all_devices[i] : i \in 1..Len(d.all_devices)}

\* the programs-facing names of a device record: full name, short name and
\* one generic alias video<N> per device file
AliasesOf(d) == {d.full_name, d.short_name} \cup {SimpleName(n) : n \in FilesOf(d)}

\* C1: get_camera_id returns a device id and never raises, for every
\* identifier and every registry state reached by construction, scans and
\* config updates; aliases video<N> of non-primary device files included.
C1_ResolveNeverRaises == op.name = "get_camera_id" => ret.kind = "id"

\* C2: after any scan, the full name, the short name and every generic
\* alias video<N> of each registered device record d resolve to d's
\* primary id.
C2_AliasesAgree ==
    \A p \in DOMAIN devices :
        \A name \in AliasesOf(devices[p]) :
            get_camera_id(Registry, EnvNone, "ok", StrId(name)).ret = RetId(devices[p].device_id)

\* an integer, or a non-empty string of the decimal digits 0..9
IsDecimalId(ident) == ident.isInt \/ IsDecimal(ident.s)

ValueOfId(ident) == IF ident.isInt THEN ident.n ELSE DecimalValue(ident.s)

\* C3: get_camera_id of an integer or of an all-digit string returns its
\* integer value, scans nothing and leaves devices, name_to_device, configs
\* and the cache file as they were, also when no device is known and no
\* scan has happened.  The frame part is stated for every identifier the
\* numeric rule takes.
C3_NumericResolveIsPure ==
    [][(op = Idle /\ op'.name = "get_camera_id" /\ IsNumeric(op'.ident))
        => /\ UNCHANGED regVars
           /\ nScans' = nScans
           /\ IsDecimalId(op'.ident) => ret' = RetId(ValueOfId(op'.ident))]_vars

C3_Witness ==
    /\ op.name = "get_camera_id"
    /\ ~op.ident.isInt
    /\ IsDecimalId(op.ident)
    /\ ret = RetId(1)
    /\ devices = EmptyMap
    /\ nScans = 0
    /\ cache_file = CacheAbsent

\* no resolution rule of get_camera_info finds a record for the identifier
MatchesNoRecord(ident) ==
    /\ IsNumeric(ident) /\ IntOfId(ident).ok => DevicePath(IntOfId(ident).val) \notin DOMAIN devices
    /\ ~ident.isInt =>
        /\ ident.s \notin DOMAIN devices
        /\ ~DictHas(name_to_device, ident.s)
        /\ ~FuzzyHit(name_to_device, ident.s)

\* C4: get_camera_config of an identifier that matches no registered
\* record (integer, digit string, path or name) returns, without raising,
\* the default template's profile of the tier.
C4_UnregisteredGetsDefault ==
    (op.name = "get_camera_config" /\ MatchesNoRecord(op.ident))
        => (ret.kind = "cfg" /\ ret.cfg = heap[defaults[DefaultKey][op.tier]])

\* C5: with no update_camera_config applied, every registered device whose
\* formats include MJPG gets, at medium_res and high_res, a profile whose
\* format is MJPG.
C5_CompressedDevicesGetMJPG ==
    \A p \in DOMAIN devices :
        InList(devices[p].formats, MJPG) =>
            \A tier \in {"medium_res", "high_res"} :
                get_camera_config(Registry, EnvNone, "ok", StrId(p), tier).ret.cfg.format = MJPG

\* C6: read() on a session that is not open returns (False, None) at once:
\* no thread is started and the session is as it was.
C6_ReadNotOpen ==
    [][(Read /\ ~IsOpen(cam)) => (cam' = cam /\ pc' = "idle" /\ sret' = SPair(Failure))]_vars

C6_Witness ==
    /\ sop = "read"
    /\ pc = "idle"
    /\ sret = SPair(Failure)
    /\ cam.threads = <<>>
    /\ cam.made > 0
    /\ ~IsOpen(cam)

\* the thread of the read() in progress, or of the last one
LastThread == cam.threads[Len(cam.threads)]

\* C7: a read() that waits for its thread always returns to the caller;
\* when the thread is still in cap.read() as the timeout elapses it returns
\* (False, None) and the thread stays alive.
C7_ReadReturnsAtDeadline ==
    /\ (pc = "join") ~> (pc = "idle" /\ sop = "read" /\ sret.kind = "pair")
    /\ [][(pc = "join" /\ pc' = "idle" /\ LastThread.alive)
            => (sret' = SPair(Failure) /\ cam' = cam)]_vars

C7_Witness ==
    /\ sop = "read"
    /\ pc = "idle"
    /\ cam.threads # <<>>
    /\ LastThread.alive
    /\ sret = SPair(Failure)

\* C8: read() hands the caller a pair and never an exception: (False, None)
\* when its thread raised or is still running at the timeout, otherwise the
\* pair cap.read() produced in the thread of that same read().
C8_ReadResult ==
    [][(sop' = "read" /\ pc' = "idle" /\ (pc = "join" \/ Read))
        => /\ sret'.kind = "pair"
           /\ (pc = "join" /\ ~LastThread.alive /\ LastThread.returned)
                => sret' = SPair(LastThread.produced)
           /\ ~(pc = "join" /\ ~LastThread.alive /\ LastThread.returned)
                => sret' = SPair(Failure)]_vars

C8_Witness ==
    /\ sop = "read"
    /\ pc = "idle"
    /\ Len(cam.threads) >= 2
    /\ LastThread.returned
    /\ sret = SPair(LastThread.produced)
    /\ sret.ok
    /\ cam.threads[1].returned
    /\ cam.threads[1].produced # LastThread.produced

\* the cap.read() calls in flight on capture object h
InFlight(h) == {i \in 1..Len(cam.threads) : cam.threads[i].alive /\ cam.threads[i].handle = h}

\* C9: at most one cap.read() is in flight on the session's capture object
\* at any time, also after an earlier read() returned on timeout.
C9_OneCaptureInFlight == \A h \in 1..MaxOpens : Cardinality(InFlight(h)) <= 1

\* C10: release() raises nothing; on an open session it closes the handle
\* and the session is closed; on a closed session it closes nothing and
\* changes nothing.
C10_ReleaseIdempotent ==
    [][Release
        => /\ sret' = SRet("none")
           /\ ~IsOpen(cam')
           /\ IsOpen(cam) => (cam.cap \notin cam'.opened /\ cam'.threads = cam.threads)
           /\ ~IsOpen(cam) => cam' = cam]_vars

C10_Witness ==
    /\ sop = "release"
    /\ cam.cap = 0
    /\ cam.made > 0
    /\ ~IsOpen(cam)


\* C11: the session holds at most one open capture object, the one self.cap
\* names: open() on an open session releases first; after release() (which
\* is also what __del__ runs) no capture object the session made is open.
C11_OneHandleNoLeak ==
    /\ cam.opened \subseteq {cam.cap}
    /\ sop = "release" => cam.opened = {}

C11_Witness ==
    /\ sop = "open"
    /\ cam.made = 2
    /\ cam.opened = {2}
    /\ \E i \in 1..Len(cam.threads) : cam.threads[i].handle = 1 /\ cam.threads[i].alive


C13_OpenReturns == (pc = "warmup") ~> (pc = "idle")


\* the listing of host e cannot be had or cannot be parsed
PrimaryFails(e) ==
    \/ ~e.bin
    \/ e.listing = "error"
    \/ \E i \in 1..Len(e.blocks) : ~VideoIds(Tail(e.blocks[i])).ok

\* one record per existing /dev/video<i>, i in 0..9, named Camera<i>
FallbackRecords(e) ==
    [p \in {DevicePath(i) : i \in e.exists \cap 0..9} |->
        LET i == CHOOSE i \in e.exists : DevicePath(i) = p
        IN  [full_name |-> GenericName(i), short_name |-> GenericName(i), device_id |-> i,
             all_devices |-> <<i>>, formats |-> _get_device_formats(e, i)]]

\* C14: scan_devices raises nothing; on a host without v4l2-ctl, with a
\* failing listing or with a listing that cannot be parsed, the devices it
\* leaves are exactly the fallback's: one record per existing
\* /dev/video0../dev/video9, named Camera<i>, with all_devices = [i].
C14_ScanFallsBack ==
    /\ op.name = "scan_devices" => ret = Ret("none")
    /\ \A e \in Envs :
        PrimaryFails(e) => scan_devices(Registry, e, "ok").devices = FallbackRecords(e)

C14_Witness ==
    /\ op.name = "scan_devices"
    /\ devices = FallbackRecords(EnvMalformed)
    /\ DOMAIN devices = {DevicePath(0), DevicePath(1)}
    /\ NameRev \in DOMAIN configs


\* C15: writing the registry to the cache file and building a new registry
\* from that file gives devices, name_to_device and configs (by value) equal
\* to the ones written, in every state reached by scans and
\* update_camera_config calls.
C15_CacheRoundTrip ==
    ToJson(CameraRegistry(save_to_cache(Registry, "ok").cache)) = ToJson(Registry)

C15_Witness ==
    /\ op.name = "__init__"
    /\ nUpdates = 1
    /\ devices # EmptyMap
    /\ cache_file = ToJson(Registry)
    /\ \E k \in DOMAIN configs : \E t \in DOMAIN configs[k] : heap[configs[k][t]] \in ArgProfiles
    /\ \E t \in Tiers : heap[configs[DefaultKey][t]] # BuiltinProfile(DefaultKey, t)


\* C16: after construction from a cache document, configs has the keys
\* "default" and "usb"; every key of the document's configs holds the
\* document's value, replaced whole (the same tiers, the same profiles); a
\* template key the document lacks holds the built-in template.
C16_LoadMergeRule ==
    (op.name = "__init__" /\ cache_file.kind \in {"doc", "badconfigs"}) =>
        /\ TemplateKeys \subseteq DOMAIN configs
        /\ \A k \in DOMAIN cache_file.configs :
              /\ k \in DOMAIN configs
              /\ DOMAIN configs[k] = DOMAIN cache_file.configs[k]
              /\ \A t \in DOMAIN configs[k] : heap[configs[k][t]] = cache_file.configs[k][t]
        /\ \A k \in TemplateKeys \ DOMAIN cache_file.configs :
              /\ DOMAIN configs[k] = Tiers
              /\ \A t \in Tiers : heap[configs[k][t]] = BuiltinProfile(k, t)

C16_Witness ==
    /\ op.name = "__init__"
    /\ cache_file = DocPartial
    /\ DOMAIN configs = TemplateKeys \cup {NameCam}
    /\ DOMAIN configs[DefaultKey] = {"low_res"}
    /\ heap[configs[DefaultKey]["low_res"]].width = 320
    /\ heap[configs[UsbKey]["high_res"]] = BuiltinProfile(UsbKey, "high_res")


\* C17: a failed cache load leaves the registry with the in-memory defaults
\* only (no devices, an empty name index, the built-in templates), and a
\* failed save leaves the in-memory state as it was.
C17_FailedLoadLeavesDefaults ==
    /\ (op.name = "__init__" /\ cache_file.kind \in {"corrupt", "badconfigs"}) =>
          /\ ret = Ret("none")
          /\ devices = EmptyMap
          /\ name_to_device = <<>>
          /\ DOMAIN configs = TemplateKeys
          /\ \A k \in TemplateKeys : \A t \in Tiers :
                heap[configs[k][t]] = BuiltinProfile(k, t)
    /\ \A o \in SaveOutcomes \ {"ok"} :
          [save_to_cache(Registry, o) EXCEPT !.cache = cache_file] = Registry


\* C18: update_camera_config on an identifier that matches no registered
\* record (integer, digit string, path or name) returns False without
\* raising, and leaves configs and the configs of the cache file as they
\* were.
C18_UnresolvedUpdateReturnsFalse ==
    [][(op'.name = "update_camera_config" /\ MatchesNoRecord(op.ident)')
         => /\ ret' = RetBool(FALSE)
            /\ ToJson(Registry).configs' = ToJson(Registry).configs
            /\ cache_file'.configs = cache_file.configs]_vars


\* the profiles DEFAULT_CAMERA_CONFIGS holds
TemplateValues == [k \in TemplateKeys |-> [t \in Tiers |-> heap[defaults[k][t]]]]

\* every profile of was, but the one of (short, tier), is the same in now
SameBut(short, tier, was, now) ==
    \A k \in DOMAIN was :
        /\ k \in DOMAIN now
        /\ \A t \in DOMAIN was[k] :
              (k # short \/ t # tier) => (t \in DOMAIN now[k] /\ now[k][t] = was[k][t])

\* the cache file holds p for the short name and tier
CacheHolds(short, tier, p) ==
    /\ cache_file.kind = "doc"
    /\ short \in DOMAIN cache_file.configs
    /\ tier \in DOMAIN cache_file.configs[short]
    /\ cache_file.configs[short][tier] = p

\* C19: after update_camera_config(identifier, tier, p) returns True,
\* get_camera_config(identifier, tier) returns p, the cache file holds p
\* for the device's short name and tier, and the device's other tiers, the
\* profiles of every other short name and the built-in templates are as
\* they were before the call.
C19_UpdateFrame ==
    [][(op'.name = "update_camera_config" /\ ret' = RetBool(TRUE)) =>
         \E p \in ArgProfiles :
            \E info \in {get_camera_info(Registry, EnvNone, "ok", op.ident).ret}' :
               /\ info.kind = "info"
               /\ get_camera_config(Registry, EnvNone, "ok", op.ident, op.tier).ret' = RetCfg(p)
               /\ CacheHolds(info.info.short_name, op.tier, p)'
               /\ SameBut(info.info.short_name, op'.tier,
                          ToJson(Registry).configs, ToJson(Registry).configs')
               /\ TemplateValues' = TemplateValues]_vars


\* C20: once a scan has run, every value of the name index is the path
\* under which a record is registered, the video<N> aliases of a device's
\* further device files included.
C20_IndexPointsAtRecords ==
    nScans > 0 =>
        \A i \in 1..Len(name_to_device) : name_to_device[i][2] \in DOMAIN devices


\* the text after the device-path prefix
PathSuffix(s) == SubSeq(s, Len(DevVideo) + 1, Len(s))

\* the id of the record the name index leads to, when there is one
IdAt(path) == path \in DOMAIN devices => ret = RetId(devices[path].device_id)

\* C21: get_camera_id answers by the first rule that matches: a numeric
\* identifier gives its value; a string with the /dev/video prefix and a
\* suffix int() parses gives the suffix; an exact key of the name index
\* gives its record's id, also when the string is a substring of an earlier
\* key of another device; a case-insensitive substring of a key gives the
\* id of the first such key; anything else, a /dev/video string with a
\* malformed suffix included, gives 0.
C21_ResolvePrecedence ==
    op.name = "get_camera_id" =>
        IF IsNumeric(op.ident)
        THEN IsDecimalId(op.ident) => ret = RetId(ValueOfId(op.ident))
        ELSE IF StartsWith(op.ident.s, DevVideo) /\ IntOfStr(RemoveAll(op.ident.s, DevVideo)).ok
        THEN IsDecimal(PathSuffix(op.ident.s)) => ret = RetId(DecimalValue(PathSuffix(op.ident.s)))
        ELSE IF DictHas(name_to_device, op.ident.s)
        THEN IdAt(DictGet(name_to_device, op.ident.s))
        ELSE IF FuzzyHit(name_to_device, op.ident.s)
        THEN IdAt(FuzzyPath(name_to_device, op.ident.s))
        ELSE ret = RetId(0)

C21_Witness ==
    /\ op.name = "get_camera_id"
    /\ op.ident = StrId(NameCam)
    /\ DOMAIN devices = {DevicePath(0), DevicePath(2)}
    /\ DictHas(name_to_device, NameCam)
    /\ DictGet(name_to_device, NameCam) = DevicePath(2)
    /\ FuzzyPath(name_to_device, NameCam) = DevicePath(0)
    /\ devices[DevicePath(0)].device_id = 0
    /\ ret = RetId(2)


\* C22: the device id of every registered record is the smallest index of
\* its all_devices, and the record is registered under /dev/video<that
\* index>, in whatever order the listing names the device files.
C22_PrimaryIsSmallest ==
    \A p \in DOMAIN devices :
        /\ \A i \in 1..Len(devices[p].all_devices) :
              devices[p].device_id <= devices[p].all_devices[i]
        /\ InList(devices[p].all_devices, devices[p].device_id)
        /\ p = DevicePath(devices[p].device_id)


\* t is s without its leading and trailing whitespace
IsTrimOf(t, s) ==
    /\ t # <<>> => ~IsWhite(t[1]) /\ ~IsWhite(t[Len(t)])
    /\ \E a \in 0..(Len(s) - Len(t)) :
          /\ SubSeq(s, a + 1, a + Len(t)) = t
          /\ \A i \in (1..a) \cup ((a + Len(t) + 1)..Len(s)) : IsWhite(s[i])

\* C23: the short name of every registered record is the trimmed text of
\* its full name before the first ':' when the full name has a ':', and the
\* full name itself otherwise.
C23_ShortNameOfFullName ==
    \A p \in DOMAIN devices :
        IF \E i \in 1..Len(devices[p].full_name) : devices[p].full_name[i] = ":"
        THEN \E k \in 1..Len(devices[p].full_name) :
                /\ devices[p].full_name[k] = ":"
                /\ \A j \in 1..(k - 1) : devices[p].full_name[j] # ":"
                /\ IsTrimOf(devices[p].short_name, SubSeq(devices[p].full_name, 1, k - 1))
        ELSE devices[p].short_name = devices[p].full_name

C23_Witness ==
    /\ op.name = "scan_devices"
    /\ DOMAIN devices = {DevicePath(0), DevicePath(4)}
    /\ devices[DevicePath(0)].full_name = NameCamA
    /\ devices[DevicePath(0)].short_name = NameCam
    /\ devices[DevicePath(4)].short_name = NameUsbX


\* the registry st holds the devices d and the name index n
HoldsExactly(st, d, n) == st.devices = d /\ st.name_to_device = n

\* C24: after every call that scanned, devices and name_to_device are the
\* ones a scan of the same host writes into an empty registry: nothing of
\* an earlier scan or of the loaded cache is left.
C24_ScanRebuilds ==
    [][nScans' > nScans =>
         \E e \in Envs :
            HoldsExactly(scan_devices(NewRegistry(CacheAbsent), e, "ok"),
                         devices', name_to_device')]_vars

C24_Witness ==
    /\ op.name = "scan_devices"
    /\ nScans = 2
    /\ nStarts = 2
    /\ DOMAIN devices = {DevicePath(3)}
    /\ ~DictHas(name_to_device, NameCam)
    /\ NameCam \in DOMAIN configs


\* C25: when scan_devices or an update_camera_config that answers True
\* has returned, and the write did not fail, the cache file is the document
\* of the devices, the name index and the configs (by value) the registry
\* holds at that moment.
C25_CacheAfterMutation ==
    (\/ op.name = "scan_devices"
     \/ op.name = "update_camera_config" /\ ret = RetBool(TRUE))
        => cache_file = ToJson(Registry)

C25_Witness ==
    /\ op.name = "update_camera_config"
    /\ ret = RetBool(TRUE)
    /\ nScans = 1
    /\ DOMAIN devices = {DevicePath(0), DevicePath(4)}
    /\ NameUsbX \in DOMAIN cache_file.configs
    /\ cache_file.configs[NameUsbX]["high_res"] \in ArgProfiles
    /\ heap[configs[NameUsbX]["high_res"]] = cache_file.configs[NameUsbX]["high_res"]


\* C26: scan_devices changes configs only by adding entries: the built-in
\* templates "default" and "usb" and every entry configs had before the
\* scan hold the same profiles after it, whatever formats the scanned
\* devices report.
C26_ScanOnlyAddsConfigs ==
    [][op'.name = "scan_devices" =>
         /\ TemplateValues' = TemplateValues
         /\ \A k \in DOMAIN configs :
               /\ k \in DOMAIN configs'
               /\ ToJson(Registry).configs'[k] = ToJson(Registry).configs[k]]_vars


\* C27: once a Camera is built, no scan and no update_camera_config on the
\* registry changes the profile it holds, nor what open() will set on the
\* device; and building a Camera with an fps of its own on a registry that
\* knows its devices leaves the registry's profiles, the built-in templates
\* and the cache file as they were.
C27_SessionConfigFixed ==
    [][/\ cam.config # NoAddr =>
            /\ cam'.config = cam.config
            /\ heap'[cam.config] = heap[cam.config]
            /\ open_settings(heap[cam.config])' = open_settings(heap[cam.config])
       /\ (cam.config = NoAddr /\ cam'.config # NoAddr /\ devices # EmptyMap) =>
            /\ ToJson(Registry)' = ToJson(Registry)
            /\ TemplateValues' = TemplateValues
            /\ cache_file' = cache_file]_vars

C27_Witness ==
    /\ cam.config # NoAddr
    /\ op.name = "update_camera_config"
    /\ op.tier = "high_res"
    /\ ret = RetBool(TRUE)
    /\ NameCam \in DOMAIN configs
    /\ heap[configs[NameCam]["high_res"]] \in ArgProfiles
    /\ heap[cam.config].width = 1920
    /\ heap[cam.config].fps = 15


\* C28: whenever get_camera_info hands back a record for an identifier,
\* get_camera_id of the same identifier is that record's device_id, also
\* for an integer or a digit string that is the index of no registered
\* device.
C28_IdMatchesRecord ==
    (op.name = "get_camera_info" /\ ret.kind = "info")
        => get_camera_id(Registry, EnvNone, "ok", op.ident).ret = RetId(ret.info.device_id)


\* C29: in a process that started without a cache file, after any scans
\* and with no update_camera_config, get_camera_config of a registered
\* device whose formats do not include MJPG has no format at any tier,
\* whatever the device is called and whatever else was scanned.
C29_NoMJPGWithoutSupport ==
    nStarts = 1 =>
        \A p \in DOMAIN devices : \A t \in Tiers :
            ~InList(devices[p].formats, MJPG) =>
                get_camera_config(Registry, EnvNone, "ok", StrId(p), t).ret.cfg.format = NoneStr


\* the calls and properties of ops from position i on
CallsFrom(ops, i) == [j \in 1..(Len(ops) - i + 1) |-> <<ops[j + i - 1].call, ops[j + i - 1].prop>>]

\* the position of the width setting: after the format when the profile
\* asks for MJPG
AtWidth(config) == IF config.format = MJPG THEN 3 ELSE 2

\* C30: an open() that has returned True has acquired the capture object,
\* then set the MJPG code only when the profile's format is MJPG, then the
\* profile's width, height and fps, then a buffer size of 1, then read
\* back width, height, fps and format code, and then made exactly 5 reads;
\* and while open() runs no read comes before the last of these.
C30_OpenOrder ==
    /\ (sop = "open" /\ pc = "idle" /\ sret = SBool(TRUE)) =>
          /\ cam.ops[1].call = "VideoCapture"
          /\ (heap[cam.config].format = MJPG) =>
                cam.ops[2] = [call |-> "set", prop |-> "FOURCC", val |-> 1196444237]
          /\ cam.ops[AtWidth(heap[cam.config])].val = heap[cam.config].width
          /\ cam.ops[AtWidth(heap[cam.config]) + 1].val = heap[cam.config].height
          /\ cam.ops[AtWidth(heap[cam.config]) + 2].val = heap[cam.config].fps
          /\ cam.ops[AtWidth(heap[cam.config]) + 3].val = 1
          /\ CallsFrom(cam.ops, AtWidth(heap[cam.config])) =
                << <<"set", "FRAME_WIDTH">>, <<"set", "FRAME_HEIGHT">>, <<"set", "FPS">>,
                   <<"set", "BUFFERSIZE">>, <<"get", "FRAME_WIDTH">>, <<"get", "FRAME_HEIGHT">>,
                   <<"get", "FPS">>, <<"get", "FOURCC">>,
                   <<"read", "">>, <<"read", "">>, <<"read", "">>, <<"read", "">>,
                   <<"read", "">> >>
    /\ (sop = "open" /\ cam.config # NoAddr) =>
          \A i \in 1..Len(cam.ops) :
              cam.ops[i].call = "read" => i >= AtWidth(heap[cam.config]) + 8

C30_Witness ==
    /\ sop = "open"
    /\ pc = "idle"
    /\ sret = SBool(TRUE)
    /\ heap[cam.config].format = MJPG
    /\ cam.camera_id = 0
    /\ Len(cam.ops) = 15
    /\ cam.ops[5].val = 15


\* C31: a motor test on a bus of exactly one motor ends, on its normal path
\* and after any exception of connect, read or write, with the torque
\* disabled and the bus disconnected, and no exception leaves the test.
C31_TestEndsClean ==
    (frame.block = "done" /\ motors_bus.motors = 1)
        => /\ motors_bus.torque = 0
           /\ ~motors_bus.is_connected
           /\ ~frame.escaped

====
